---------------------------- MODULE Spec2Model ----------------------------
(***************************************************************************)
(* A model of the prompt-template service of LLM-relations-extraction:     *)
(*   app/utils.py            the schema grammar (triplet parsing)          *)
(*   app/prompt_evaluator.py the evaluation engine and its four metrics    *)
(*   app/prompt_manager.py   the template store and its persistence        *)
(*                                                                         *)
(* Strings whose characters matter (triplets, texts, node fields) are      *)
(* sequences of one-character strings.  An Optional[str] is a set with at  *)
(* most one element ({} is None).  Python floats are exact rationals       *)
(* <<numerator, denominator>>.                                             *)
(***************************************************************************)
EXTENDS Integers, Sequences, FiniteSets, TLC

VARIABLES
    \* ---- schema grammar (app/utils.py) ----
    g_in,       \* the triplet list handed to the grammar
    g_cur,      \* the latest derived lists: [input, nodes, rels]
    g_prev,     \* the derived lists before that
    \* ---- the metrics (app/prompt_evaluator.py) ----
    m_result,   \* an extraction result: a dict with nodes and relationships
    m_text,     \* the text it was extracted from
    m_schema,   \* schema_info.triplet
    m_scores,   \* the scores of _evaluate_single_result, {} before the call
    \* ---- the template store (app/prompt_manager.py) ----
    mgr,                \* "up" while an EnhancedPromptManager object exists
    templates,          \* self.templates: a dict in insertion order
    default_templates,  \* self.default_templates: language -> template id
    disk,               \* the storage file prompt_templates.json
    next_id,            \* the uuid4 values handed out so far are 1..next_id-1
    now,                \* the latest reading of datetime.now()
    ret,                \* the outcome of the latest call
    ncalls,             \* the number of calls made so far
    \* ---- evaluate_template (app/prompt_evaluator.py) ----
    template_content,   \* the content of the template under evaluation
    test_texts,         \* the test texts, in input order
    evaluation_metrics, \* the requested metric names, a list
    extractor,          \* what kg_extractor.extract would answer for each text
    ev_pc,              \* "loop" in the for loop, "done" after the return
    detailed_results,   \* the detail log
    total_scores,       \* the running sums
    evaluation_results, \* the per-metric averages
    summary             \* the success count and the recommendation tier

gvars == <<g_in, g_cur, g_prev>>
mvars == <<m_result, m_text, m_schema, m_scores>>
svars == <<mgr, templates, default_templates, disk, next_id, now, ret, ncalls>>
evars == <<template_content, test_texts, evaluation_metrics, extractor, ev_pc,
           detailed_results, total_scores, evaluation_results, summary>>

-----------------------------------------------------------------------------
(* Characters and strings *)

\* re: [A-Za-z0-9_]
WordChars == {"A", "B", "R", "a", "b", "r", "0", "1", "_"}

\* Unicode code points: the order of Python's str comparison
Ord(c) ==
    CASE c = " " -> 32 [] c = "-" -> 45 [] c = "." -> 46
      [] c = "0" -> 48 [] c = "1" -> 49 [] c = ">" -> 62
      [] c = "A" -> 65 [] c = "B" -> 66 [] c = "R" -> 82
      [] c = "_" -> 95 [] c = "a" -> 97 [] c = "b" -> 98
      [] c = "r" -> 114

Range(s) == {s[i] : i \in DOMAIN s}

\* Python's < on str: lexicographic by code point, a proper prefix is smaller
RECURSIVE StrLess(_, _)
StrLess(s, t) ==
    IF t = <<>> THEN FALSE
    ELSE IF s = <<>> THEN TRUE
    ELSE IF Head(s) = Head(t) THEN StrLess(Tail(s), Tail(t))
    ELSE Ord(Head(s)) < Ord(Head(t))

\* the index of the last character of the run of word characters that
\* starts at i (i-1 when s[i] is no word character or i is past the end)
RECURSIVE WordRunEnd(_, _)
WordRunEnd(s, i) ==
    IF i <= Len(s) /\ s[i] \in WordChars THEN WordRunEnd(s, i + 1) ELSE i - 1

\* s[i..] starts with the literal lit
StartsAt(s, i, lit) ==
    /\ i + Len(lit) - 1 <= Len(s)
    /\ \A k \in 1..Len(lit) : s[i + k - 1] = lit[k]

-----------------------------------------------------------------------------
(* app/utils.py *)

\* re.match(r"([A-Za-z0-9_]+)-", triplet)
extract_entity_type_from_triplet(triplet) ==
    LET j == WordRunEnd(triplet, 1)
    IN  IF j >= 1 /\ StartsAt(triplet, j + 1, <<"-">>)
        THEN {SubSeq(triplet, 1, j)} ELSE {}

\* the start positions at which -([A-Za-z0-9_]+)-> matches
RelationMatches(triplet) ==
    {i \in 1..Len(triplet) :
        /\ triplet[i] = "-"
        /\ WordRunEnd(triplet, i + 1) >= i + 1
        /\ StartsAt(triplet, WordRunEnd(triplet, i + 1) + 1, <<"-", ">">>)}

Min(S) == CHOOSE x \in S : \A y \in S : x <= y

\* re.search(r"-([A-Za-z0-9_]+)->", triplet): the leftmost match
extract_relation_type(triplet) ==
    LET M == RelationMatches(triplet)
    IN  IF M = {} THEN {}
        ELSE {SubSeq(triplet, Min(M) + 1, WordRunEnd(triplet, Min(M) + 1))}

\* the start positions at which ->([A-Za-z0-9_]+) matches
TargetMatches(triplet) ==
    {i \in 1..Len(triplet) :
        /\ StartsAt(triplet, i, <<"-", ">">>)
        /\ WordRunEnd(triplet, i + 2) >= i + 2}

\* re.search(r"->([A-Za-z0-9_]+)", triplet): the leftmost match
extract_target_type(triplet) ==
    LET M == TargetMatches(triplet)
    IN  IF M = {} THEN {}
        ELSE {SubSeq(triplet, Min(M) + 2, WordRunEnd(triplet, Min(M) + 2))}

\* sorted(list(a_set)): the least element first, then the rest
RECURSIVE sorted(_)
sorted(S) ==
    IF S = {} THEN <<>>
    ELSE LET m == CHOOSE x \in S : \A y \in S \ {x} : StrLess(x, y)
         IN  <<m>> \o sorted(S \ {m})

\* the loop of get_allowed_node_types: node_types.add(src), node_types.add(tgt)
RECURSIVE NodeTypeLoop(_, _)
NodeTypeLoop(schema_triplets, node_types) ==
    IF schema_triplets = <<>> THEN node_types
    ELSE LET src == extract_entity_type_from_triplet(Head(schema_triplets))
             tgt == extract_target_type(Head(schema_triplets))
         IN  NodeTypeLoop(Tail(schema_triplets), node_types \cup src \cup tgt)

\* a list in first-insertion order without duplicates (an unsorted return)
RECURSIVE InsertionOrder(_, _)
InsertionOrder(items, seen) ==
    IF items = <<>> THEN <<>>
    ELSE IF Head(items) \in seen THEN InsertionOrder(Tail(items), seen)
    ELSE <<Head(items)>> \o InsertionOrder(Tail(items), seen \cup {Head(items)})

RECURSIVE PartsInOrder(_)
PartsInOrder(schema_triplets) ==
    IF schema_triplets = <<>> THEN <<>>
    ELSE LET src == extract_entity_type_from_triplet(Head(schema_triplets))
             tgt == extract_target_type(Head(schema_triplets))
         IN  (IF src = {} THEN <<>> ELSE <<CHOOSE x \in src : TRUE>>)
             \o (IF tgt = {} THEN <<>> ELSE <<CHOOSE x \in tgt : TRUE>>)
             \o PartsInOrder(Tail(schema_triplets))

get_allowed_node_types_unsorted(schema_triplets) ==
    InsertionOrder(PartsInOrder(schema_triplets), {})

\* the loop with every malformed triplet skipped as a whole
get_allowed_node_types_skipping(schema_triplets) ==
    sorted(NodeTypeLoop(
        SelectSeq(schema_triplets,
                  LAMBDA t : /\ extract_entity_type_from_triplet(t) # {}
                             /\ extract_relation_type(t) # {}
                             /\ extract_target_type(t) # {}), {}))

get_allowed_node_types(schema_triplets) ==
    sorted(NodeTypeLoop(schema_triplets, {}))

\* the loop of get_allowed_relations: relations.add(rel)
RECURSIVE RelationLoop(_, _)
RelationLoop(schema_triplets, relations) ==
    IF schema_triplets = <<>> THEN relations
    ELSE RelationLoop(Tail(schema_triplets),
                      relations \cup extract_relation_type(Head(schema_triplets)))

get_allowed_relations(schema_triplets) ==
    sorted(RelationLoop(schema_triplets, {}))

-----------------------------------------------------------------------------
(* Python values used by app/prompt_evaluator.py *)

\* dict.get(key, default)
Get(d, key, default) == IF key \in DOMAIN d THEN d[key] ELSE default

\* a dict holding, of the entries of vals, those whose key is in keys
Dict(keys, vals) == [k \in keys |-> vals[k]]

\* str.lower() of one character
LowerChar(c) ==
    CASE c = "A" -> "a" [] c = "B" -> "b" [] c = "R" -> "r" [] OTHER -> c

\* str.lower()
lower(s) == SubSeq([i \in DOMAIN s |-> LowerChar(s[i])], 1, Len(s))

\* needle in hay, for str
Contains(hay, needle) ==
    \E h \in {hay}, n \in {needle} :
        \E i \in 1..(Len(h) - Len(n) + 1) : StartsAt(h, i, n)

\* str.split(): the maximal runs of non-whitespace characters
RECURSIVE SplitFrom(_, _, _)
SplitFrom(s, i, word) ==
    IF i > Len(s) THEN (IF word = <<>> THEN <<>> ELSE <<word>>)
    ELSE IF s[i] = " "
         THEN (IF word = <<>> THEN <<>> ELSE <<word>>) \o SplitFrom(s, i + 1, <<>>)
         ELSE SplitFrom(s, i + 1, Append(word, s[i]))

split(s) == LET v == CHOOSE v \in {s} : TRUE IN SplitFrom(v, 1, <<>>)

\* the index of the first occurrence of lit in s, 0 when there is none
Find(s, lit) ==
    LET M == {i \in 1..Len(s) : StartsAt(s, i, lit)}
    IN  IF M = {} THEN 0 ELSE Min(M)

\* floats, as exact rationals <<numerator, denominator>> in lowest terms
RECURSIVE GCD(_, _)
GCD(a, b) == IF b = 0 THEN a ELSE GCD(b, a % b)

Q(n, d) == LET g == GCD(n, d) IN IF n = 0 THEN <<0, 1>> ELSE <<n \div g, d \div g>>

QAdd(a, b) == Q(a[1] * b[2] + b[1] * a[2], a[2] * b[2])
QLe(a, b) == a[1] * b[2] <= b[1] * a[2]
QMin(a, b) == IF QLe(a, b) THEN a ELSE b

RECURSIVE QSum(_)
QSum(l) == IF l = <<>> THEN Q(0, 1) ELSE QAdd(Head(l), QSum(Tail(l)))

\* sum(l) / len(l)
QMean(l) == LET t == QSum(l) IN Q(t[1], t[2] * Len(l))

Max(a, b) == IF a >= b THEN a ELSE b

\* list(d.values()), in some order of the keys
RECURSIVE values_of(_, _)
values_of(d, keys) ==
    IF keys = {} THEN <<>>
    ELSE LET k == CHOOSE k \in keys : TRUE
         IN  <<d[k]>> \o values_of(d, keys \ {k})

values(d) == values_of(d, DOMAIN d)

-----------------------------------------------------------------------------
(* app/prompt_evaluator.py: the four metrics *)

WordsPerEntity == 20

\* _estimate_entities_in_text: max(len(words) // 20, 1)
estimate_entities_in_text(text) == Max(Len(split(text)) \div WordsPerEntity, 1)

\* completeness without the final min(..., 1.0)
calculate_completeness_unclamped(result, text) ==
    LET nodes == Get(result, "nodes", <<>>)
        relationships == Get(result, "relationships", <<>>)
        text_entities == estimate_entities_in_text(text)
        coverage == QMin(Q(Len(nodes), text_entities), Q(1, 1))
        relationship_bonus ==
            QMin(Q(Len(relationships), Max(Len(nodes), 1)), Q(3, 10))
    IN  IF nodes = <<>> /\ relationships = <<>> THEN Q(0, 1)
        ELSE QAdd(coverage, relationship_bonus)

calculate_completeness(result, text) ==
    LET nodes == Get(result, "nodes", <<>>)
        relationships == Get(result, "relationships", <<>>)
        text_entities == estimate_entities_in_text(text)
        coverage == QMin(Q(Len(nodes), text_entities), Q(1, 1))
        relationship_bonus ==
            QMin(Q(Len(relationships), Max(Len(nodes), 1)), Q(3, 10))
    IN  IF nodes = <<>> /\ relationships = <<>> THEN Q(0, 1)
        ELSE IF text_entities = 0
             THEN (IF nodes # <<>> THEN Q(1, 1) ELSE Q(0, 1))
             ELSE QMin(QAdd(coverage, relationship_bonus), Q(1, 1))

\* triplet.split('-')[0] when the split has two parts or more
FirstDashPart(triplet) ==
    IF Find(triplet, <<"-">>) = 0 THEN {}
    ELSE {SubSeq(triplet, 1, Find(triplet, <<"-">>) - 1)}

\* triplet.split('->')[1] when '->' is in the triplet
SecondArrowPart(triplet) ==
    LET a == Find(triplet, <<"-", ">">>)
        rest == SubSeq(triplet, a + 2, Len(triplet))
        b == Find(rest, <<"-", ">">>)
    IN  IF a = 0 THEN {}
        ELSE IF b = 0 THEN {rest} ELSE {SubSeq(rest, 1, b - 1)}

\* _extract_allowed_types
RECURSIVE extract_allowed_types(_)
extract_allowed_types(triplets) ==
    IF triplets = <<>> THEN {}
    ELSE (IF FirstDashPart(Head(triplets)) # {}
          THEN FirstDashPart(Head(triplets)) \cup SecondArrowPart(Head(triplets))
          ELSE {})
         \cup extract_allowed_types(Tail(triplets))

\* triplet.split('->')[0].split('-', 1) has no element [1]: IndexError
RelationIndexError(triplet) ==
    LET a == Find(triplet, <<"-", ">">>)
    IN  a # 0 /\ Find(SubSeq(triplet, 1, a - 1), <<"-">>) = 0

\* triplet.split('->')[0].split('-', 1)[1]
RelationPart(triplet) ==
    LET a == Find(triplet, <<"-", ">">>)
        before == SubSeq(triplet, 1, a - 1)
    IN  IF a = 0 THEN {}
        ELSE {SubSeq(before, Find(before, <<"-">>) + 1, Len(before))}

\* _extract_allowed_relations raises on the first triplet with the IndexError
extract_allowed_relations_raises(triplets) ==
    \E i \in 1..Len(triplets) : RelationIndexError(triplets[i])

\* _extract_allowed_relations, when it does not raise
RECURSIVE extract_allowed_relations(_)
extract_allowed_relations(triplets) ==
    IF triplets = <<>> THEN {}
    ELSE RelationPart(Head(triplets)) \cup extract_allowed_relations(Tail(triplets))

Truthy(d, key) == Get(d, key, <<>>) # <<>>

\* _check_node_accuracy
check_node_accuracy(node, text, triplets) ==
    LET name == Get(node, "name", <<>>)
        s1 == IF Truthy(node, "id") /\ Truthy(node, "name") /\ Truthy(node, "type")
              THEN Q(3, 10) ELSE Q(0, 1)
        s2 == IF name # <<>> /\ Contains(lower(text), lower(name))
              THEN Q(4, 10) ELSE Q(0, 1)
        s3 == IF Get(node, "type", <<>>) \in extract_allowed_types(triplets)
              THEN Q(3, 10) ELSE Q(0, 1)
    IN  QAdd(QAdd(s1, s2), s3)

NodeIds(nodes) == {Get(nodes[i], "id", <<>>) : i \in DOMAIN nodes}

\* _check_relationship_accuracy, when _extract_allowed_relations does not raise
check_relationship_accuracy(rel, nodes, triplets) ==
    LET s1 == IF Truthy(rel, "source") /\ Truthy(rel, "target") /\ Truthy(rel, "type")
              THEN Q(4, 10) ELSE Q(0, 1)
        s2 == IF /\ Get(rel, "source", <<>>) \in NodeIds(nodes)
                 /\ Get(rel, "target", <<>>) \in NodeIds(nodes)
              THEN Q(3, 10) ELSE Q(0, 1)
        s3 == IF Get(rel, "type", <<>>) \in extract_allowed_relations(triplets)
              THEN Q(3, 10) ELSE Q(0, 1)
    IN  QAdd(QAdd(s1, s2), s3)

calculate_accuracy(result, text, triplets) ==
    LET nodes == Get(result, "nodes", <<>>)
        relationships == Get(result, "relationships", <<>>)
        accuracy_scores ==
            [i \in 1..Len(nodes) |-> check_node_accuracy(nodes[i], text, triplets)]
            \o [i \in 1..Len(relationships) |->
                  check_relationship_accuracy(relationships[i], nodes, triplets)]
    IN  IF nodes = <<>> /\ relationships = <<>> THEN Q(0, 1)
        \* except Exception: return 0.0
        ELSE IF relationships # <<>> /\ extract_allowed_relations_raises(triplets)
             THEN Q(0, 1)
             ELSE QMean(accuracy_scores)

Letters == {"A", "B", "R", "a", "b", "r"}
Digits == {"0", "1"}

\* re.compile(r'^[a-zA-Z_]+_\d+$').match(id): a run of digits at the end, an
\* underscore before it, and before that one or more letters or underscores
id_pattern_match(id) ==
    \E k \in 2..(Len(id) - 1) :
        /\ id[k] = "_"
        /\ \A i \in 1..(k - 1) : id[i] \in Letters \cup {"_"}
        /\ \A i \in (k + 1)..Len(id) : id[i] \in Digits

\* the reference sub-score appended for every result, 0.0 without relationships
calculate_consistency_always_refs(result) ==
    LET nodes == Get(result, "nodes", <<>>)
        relationships == Get(result, "relationships", <<>>)
        id_consistency ==
            Q(Cardinality({i \in DOMAIN nodes :
                             id_pattern_match(Get(nodes[i], "id", <<>>))}),
              Len(nodes))
        types == {Get(nodes[i], "type", <<>>) : i \in DOMAIN nodes}
        type_consistency == Q(Cardinality(types), Len(nodes))
        valid_refs ==
            Cardinality({i \in DOMAIN relationships :
                /\ Get(relationships[i], "source", <<>>) \in NodeIds(nodes)
                /\ Get(relationships[i], "target", <<>>) \in NodeIds(nodes)})
        ref_consistency ==
            IF relationships = <<>> THEN Q(0, 1) ELSE Q(valid_refs, Len(relationships))
    IN  IF nodes = <<>> THEN Q(0, 1)
        ELSE QMean(<<id_consistency, type_consistency, ref_consistency>>)

calculate_consistency(result) ==
    LET nodes == Get(result, "nodes", <<>>)
        relationships == Get(result, "relationships", <<>>)
        id_consistency ==
            Q(Cardinality({i \in DOMAIN nodes :
                             id_pattern_match(Get(nodes[i], "id", <<>>))}),
              Len(nodes))
        types == {Get(nodes[i], "type", <<>>) : i \in DOMAIN nodes}
        type_consistency == Q(Cardinality(types), Len(nodes))
        valid_refs ==
            Cardinality({i \in DOMAIN relationships :
                /\ Get(relationships[i], "source", <<>>) \in NodeIds(nodes)
                /\ Get(relationships[i], "target", <<>>) \in NodeIds(nodes)})
        ref_consistency == Q(valid_refs, Len(relationships))
    IN  IF nodes = <<>> THEN Q(0, 1)
        ELSE IF relationships # <<>>
             THEN QMean(<<id_consistency, type_consistency, ref_consistency>>)
             ELSE QMean(<<id_consistency, type_consistency>>)

\* the relevance of one node without the "if name" test of line 224
node_relevance_unguarded(node, text) ==
    LET name == Get(node, "name", <<>>)
        words == split(lower(name))
    IN  IF Contains(lower(text), lower(name)) THEN Q(1, 1)
        ELSE IF \E w \in DOMAIN words : Contains(lower(text), words[w])
             THEN Q(1, 2) ELSE Q(0, 1)

\* the relevance of one node
node_relevance(node, text) ==
    LET name == Get(node, "name", <<>>)
        words == split(lower(name))
    IN  IF name # <<>>
        THEN IF Contains(lower(text), lower(name)) THEN Q(1, 1)
             ELSE IF \E w \in DOMAIN words : Contains(lower(text), words[w])
                  THEN Q(1, 2) ELSE Q(0, 1)
        ELSE Q(0, 1)

calculate_relevance(result, text) ==
    LET nodes == Get(result, "nodes", <<>>)
    IN  IF nodes = <<>> THEN Q(0, 1)
        ELSE QMean([i \in 1..Len(nodes) |-> node_relevance(nodes[i], text)])

MetricNames == {"completeness", "accuracy", "consistency", "relevance"}

\* _evaluate_single_result: a score for each known metric that is requested
evaluate_single_result(result, text, triplets, metrics) ==
    [m \in Range(metrics) \cap MetricNames |->
        CASE m = "completeness" -> calculate_completeness(result, text)
          [] m = "accuracy"     -> calculate_accuracy(result, text, triplets)
          [] m = "consistency"  -> calculate_consistency(result)
          [] m = "relevance"    -> calculate_relevance(result, text)]

-----------------------------------------------------------------------------
(* The schema grammar as a state machine: a caller hands a triplet list,   *)
(* reorders it, repeats entries of it, and derives the two type lists.     *)

MaxTriplets == 2

TripletStrings ==
    { <<"A", "-", "R", "-", ">", "B">>,      \* A-R->B
      <<"B", "-", "r", "-", ">", "A">>,      \* B-r->A
      <<"A", "-">>,                          \* A-       (no relation, no target)
      <<"-", ">", "b">>,                     \* ->b      (no source, no relation)
      <<"a", "-", "R", "-", ">">>,           \* a-R->    (no target)
      <<"A", "R">>,                          \* AR       (no separator at all)
      <<"A", "-", ">", "B">> }               \* A->B     (no relation)

TripletLists == UNION {[1..n -> TripletStrings] : n \in 0..MaxTriplets}

\* what a caller gets for one triplet list
Derived(schema_triplets) ==
    [input |-> schema_triplets,
     nodes |-> get_allowed_node_types(schema_triplets),
     rels  |-> get_allowed_relations(schema_triplets)]

GrammarStart ==
    /\ g_in \in TripletLists
    /\ g_cur = Derived(<<>>)
    /\ g_prev = Derived(<<>>)

Derive ==
    /\ g_cur' = Derived(g_in)
    /\ g_prev' = g_cur
    /\ UNCHANGED <<g_in, mvars, svars, evars>>

Reorder ==
    \E i \in 1..(Len(g_in) - 1) :
        /\ g_in' = [g_in EXCEPT ![i] = g_in[i + 1], ![i + 1] = g_in[i]]
        /\ UNCHANGED <<g_cur, g_prev, mvars, svars, evars>>

Repeat ==
    \E i \in 1..Len(g_in) :
        /\ Len(g_in) < MaxTriplets
        /\ g_in' = Append(g_in, g_in[i])
        /\ UNCHANGED <<g_cur, g_prev, mvars, svars, evars>>

NextGrammar == Derive \/ Reorder \/ Repeat

-----------------------------------------------------------------------------
(* The metrics as a state machine: an extraction result, a text and a      *)
(* schema are given, and _evaluate_single_result scores them.              *)

MaxNodes == 2
MaxRels == 1

AllKeys == {"id", "name", "type"}

Nodes ==
    { Dict(AllKeys, [id |-> <<"a", "_", "1">>, name |-> <<"A", "b">>, type |-> <<"A">>]),
      Dict(AllKeys, [id |-> <<"b", "_", "0">>, name |-> <<"b", " ", "r">>, type |-> <<"B">>]),
      Dict(AllKeys, [id |-> <<"a", "1">>, name |-> <<>>, type |-> <<"A">>]),
      Dict({"name"}, [name |-> <<"r", "r">>]),
      Dict(AllKeys, [id |-> <<"a", "_", "1">>, name |-> <<"R">>, type |-> <<>>]) }

RelKeys == {"source", "target", "type"}

Rels ==
    { Dict(RelKeys, [source |-> <<"a", "_", "1">>, target |-> <<"b", "_", "0">>,
                     type |-> <<"R">>]),
      Dict(RelKeys, [source |-> <<"a", "_", "1">>, target |-> <<"b">>,
                     type |-> <<"r">>]),
      Dict({"source", "type"}, [source |-> <<>>, type |-> <<"R">>]) }

NodeLists == UNION {[1..n -> Nodes] : n \in 0..MaxNodes}
RelLists == UNION {[1..n -> Rels] : n \in 0..MaxRels}

\* json results: either key may be absent
Results ==
    {Dict(keys, [nodes |-> ns, relationships |-> rs]) :
        keys \in SUBSET {"nodes", "relationships"}, ns \in NodeLists, rs \in RelLists}

Texts ==
    { <<>>,
      <<"A", "b", " ", "b">>,
      \* 2 * WordsPerEntity words
      SubSeq([i \in 1..(4 * WordsPerEntity - 1) |-> IF i % 2 = 1 THEN "a" ELSE " "],
             1, 4 * WordsPerEntity - 1) }

Schemas ==
    { <<>>,
      << <<"A", "-", "R", "-", ">", "B">> >>,
      << <<"A", "-", ">", "B">>, <<"A", "-", "R", "-", ">", "B">> >> }

AllMetrics == <<"completeness", "accuracy", "consistency", "relevance">>

NoScores == [m \in {} |-> Q(0, 1)]

MetricStart ==
    /\ m_result \in Results
    /\ m_text \in Texts
    /\ m_schema \in Schemas
    /\ m_scores = NoScores

Score ==
    /\ m_scores = NoScores
    /\ m_scores' = evaluate_single_result(m_result, m_text, m_schema, AllMetrics)
    /\ UNCHANGED <<m_result, m_text, m_schema, gvars, svars, evars>>

NextMetric == Score

-----------------------------------------------------------------------------
(* app/prompt_manager.py: the template store *)

MaxTemplates == 2       \* uuid4 values available
MaxTime == 1            \* datetime.now() reads 0..MaxTime
MaxCalls == 3           \* calls made in one run

TemplateIds == 1..MaxTemplates
\* the ids a caller may name: those and one that no template ever has
RequestIds == 1..(MaxTemplates + 1)
Times == 0..MaxTime
Languages == {"zh", "en"}

InitialVersion == "1.0.0"
CopyTag == "copy"       \* the tag "复制"

MetaEmpty == [is_default |-> "absent"]
MetaDefault == [is_default |-> "true"]

\* dicts in insertion order: a sequence of values keyed by their id
Keys(d) == {d[i].id : i \in DOMAIN d}
Lookup(d, id) == d[CHOOSE i \in DOMAIN d : d[i].id = id]
\* d[id] = value
Store(d, id, value) ==
    IF id \in Keys(d)
    THEN [i \in DOMAIN d |-> IF d[i].id = id THEN value ELSE d[i]]
    ELSE Append(d, value)
\* del d[id]
Del(d, id) == SelectSeq(d, LAMBDA t : t.id # id)

\* the storage file
FileAbsent == [kind |-> "absent", templates |-> <<>>]
FileCorrupt == [kind |-> "corrupt", templates |-> <<>>]
FileJson(tpls) == [kind |-> "json", templates |-> tpls]

\* save_templates: json.dump of tpl.dict() meets the datetime created_at of
\* the first template and raises TypeError; the file, opened with "w", keeps
\* the output written until then, which is no JSON document
save_raises(tpls) == tpls # <<>>
save_file(tpls) == IF save_raises(tpls) THEN FileCorrupt ELSE FileJson(<<>>)

\* load_templates, lines 165-168: the last flagged template of a language wins
RECURSIVE scan_defaults(_, _)
scan_defaults(tpls, index) ==
    IF tpls = <<>> THEN index
    ELSE scan_defaults(Tail(tpls),
            IF Head(tpls).metadata.is_default = "true"
            THEN [l \in DOMAIN index \cup {Head(tpls).language} |->
                    IF l = Head(tpls).language THEN Head(tpls).id ELSE index[l]]
            ELSE index)

NoDefaults == [l \in {} |-> 0]

\* EnhancedPromptManager(): load_templates, then _init_default_templates,
\* which on an empty store builds the two default templates and saves them
ManagerNew(file) ==
    IF file.kind = "corrupt"
    THEN [raised |-> "JSONDecodeError", templates |-> <<>>,
          default_templates |-> NoDefaults, disk |-> file]
    ELSE IF file.templates = <<>>
    THEN [raised |-> "TypeError", templates |-> <<>>,
          default_templates |-> NoDefaults, disk |-> FileCorrupt]
    ELSE [raised |-> "none", templates |-> file.templates,
          default_templates |-> scan_defaults(file.templates, NoDefaults),
          disk |-> file]

Template(id, name, description, language, content, created_at, updated_at, tags, metadata) ==
    [id |-> id, name |-> name, description |-> description,
     language |-> language, content |-> content, version |-> InitialVersion,
     created_at |-> created_at, updated_at |-> updated_at,
     tags |-> tags, metadata |-> metadata]

\* storage files written by hand or by another tool
InitialFiles ==
    { FileAbsent,
      FileJson(<< Template(1, "n1", <<"d1">>, "zh", "c1", 0, 0, <<"x">>, MetaDefault) >>) }

CreateRequests ==
    { [name |-> "n1", description |-> <<>>, language |-> "en", content |-> "c1",
       tags |-> <<>>, metadata |-> MetaEmpty],
      [name |-> "n2", description |-> <<"d2">>, language |-> "zh", content |-> "c2",
       tags |-> <<"y">>, metadata |-> MetaDefault] }

\* UpdatePromptTemplateRequest: the fields that are not None
UpdateRequests ==
    { [name |-> "n2"],
      [description |-> <<"d2">>, content |-> "bad"],
      [tags |-> <<"y">>, metadata |-> MetaEmpty] }

Ret(op, id, req, raised, value) ==
    [op |-> op, id |-> id, req |-> req, raised |-> raised, value |-> value]

NoReq == [none |-> TRUE]

StoreStart ==
    /\ mgr = "down"
    /\ templates = <<>>
    /\ default_templates = NoDefaults
    /\ disk \in InitialFiles
    /\ next_id = 2
    /\ now = 0
    /\ ret = Ret("none", 0, NoReq, "none", FALSE)
    /\ ncalls = 0

\* None
None == [none |-> TRUE]

\* f"模板不存在: {template_id}" with the id left out
not_found_message_without_id(template_id) == [text |-> "template not found", about |-> 0]

\* f"模板不存在: {template_id}"
not_found_message(template_id) == [text |-> "template not found", about |-> template_id]

\* f"未找到语言 '{language}' 的默认模板"
no_default_message(language) == [text |-> "no default template", about |-> language]

\* get_template
get_template(tpls, template_id) ==
    IF template_id \notin Keys(tpls) THEN None ELSE Lookup(tpls, template_id)

\* a lookup that falls back to the first template of the store
get_default_template_falling_back(tpls, index, language) ==
    IF language \in DOMAIN index /\ index[language] \in Keys(tpls)
    THEN Lookup(tpls, index[language])
    ELSE IF tpls # <<>> THEN tpls[1] ELSE None

\* get_default_template
get_default_template(tpls, index, language) ==
    IF language \notin DOMAIN index THEN None
    ELSE IF index[language] \in Keys(tpls) THEN Lookup(tpls, index[language])
    ELSE None

\* Jinja2 templates, as env.from_string parses them: literal text, {{ name }}
\* and {% for var in seq %} body {% endfor %}
Lit(s) == [kind |-> "lit", s |-> s]
Var(name) == [kind |-> "var", name |-> name]
For(var, seq, body) == [kind |-> "for", var |-> var, seq |-> seq, body |-> body]

\* env.from_string(content) for the template contents used here:
\*   c1   T:{{ text }}{% for t in allowed_triplets %}{{ t }};{% endfor %}
\*        {{ allowed_node_types }}{{ allowed_relations }}
\*   c2   T:{{ entity_types }}{% for r in relation_list %}{{ r }}{% endfor %}
\*        {% for t in allowed_triplets %}{{ u }};{% endfor %}{{ text }}
\*   bad  {% for t in allowed_triplets %}{{ t }}      (the block is not closed)
from_string(content) ==
    CASE content = "c1" ->
            [raised |-> "none",
             parts |-> << Lit(<<"T", ":">>), Var("text"),
                          For("t", "allowed_triplets", <<Var("t"), Lit(<<";">>)>>),
                          Var("allowed_node_types"), Var("allowed_relations") >>]
      [] content = "c2" ->
            [raised |-> "none",
             parts |-> << Lit(<<"T", ":">>), Var("entity_types"),
                          For("r", "relation_list", <<Var("r")>>),
                          For("t", "allowed_triplets", <<Var("u"), Lit(<<";">>)>>),
                          Var("text") >>]
      [] OTHER -> [raised |-> "TemplateSyntaxError", parts |-> <<>>]

\* the names a parsed template refers to, loop variables apart
RECURSIVE referenced(_)
referenced(parts) ==
    IF parts = <<>> THEN {}
    ELSE (CASE Head(parts).kind = "lit" -> {}
            [] Head(parts).kind = "var" -> {Head(parts).name}
            [] Head(parts).kind = "for" ->
                 {Head(parts).seq} \cup (referenced(Head(parts).body) \ {Head(parts).var}))
         \cup referenced(Tail(parts))

\* the variables render_prompt binds, lines 293-298
BoundNames == {"text", "allowed_node_types", "allowed_relations", "allowed_triplets"}

StrValue(v) == [type |-> "str", v |-> v]
ListValue(v) == [type |-> "list", v |-> v]

\* str(list) of a list of str: ['A', 'B']
RECURSIVE repr_items(_)
repr_items(l) ==
    IF l = <<>> THEN <<>>
    ELSE <<"'">> \o Head(l) \o <<"'">>
         \o (IF Tail(l) = <<>> THEN <<>> ELSE <<",", " ">> \o repr_items(Tail(l)))

\* what {{ name }} prints for a value
to_str(value) ==
    IF value.type = "str" THEN value.v ELSE <<"[">> \o repr_items(value.v) \o <<"]">>

\* the elements a for loop meets: the items of a list, the characters of a str
elements(value) ==
    IF value.type = "list" THEN value.v ELSE [i \in 1..Len(value.v) |-> <<value.v[i]>>]

RECURSIVE render_parts(_, _)
RECURSIVE render_loop(_, _, _, _)

\* rendering under StrictUndefined: a name that is not bound raises, shown as
\* a mark in the output
render_parts_strict(parts, ctx) ==
    IF parts = <<>> THEN <<>>
    ELSE (CASE Head(parts).kind = "lit" -> Head(parts).s
            [] Head(parts).kind = "var" ->
                 IF Head(parts).name \in DOMAIN ctx
                 THEN to_str(ctx[Head(parts).name]) ELSE <<"UndefinedError">>
            [] Head(parts).kind = "for" ->
                 IF Head(parts).seq \in DOMAIN ctx
                 THEN render_loop(Head(parts).var, elements(ctx[Head(parts).seq]),
                                  Head(parts).body, ctx)
                 ELSE <<"UndefinedError">>)
         \o render_parts(Tail(parts), ctx)

\* Template.render(**ctx) under Environment(): a name that is not bound is
\* Undefined, which prints as the empty string and iterates over nothing
render_parts(parts, ctx) ==
    IF parts = <<>> THEN <<>>
    ELSE (CASE Head(parts).kind = "lit" -> Head(parts).s
            [] Head(parts).kind = "var" ->
                 IF Head(parts).name \in DOMAIN ctx
                 THEN to_str(ctx[Head(parts).name]) ELSE <<>>
            [] Head(parts).kind = "for" ->
                 IF Head(parts).seq \in DOMAIN ctx
                 THEN render_loop(Head(parts).var, elements(ctx[Head(parts).seq]),
                                  Head(parts).body, ctx)
                 ELSE <<>>)
         \o render_parts(Tail(parts), ctx)

render_loop(var, items, body, ctx) ==
    IF items = <<>> THEN <<>>
    ELSE render_parts(body, [n \in DOMAIN ctx \cup {var} |->
                                IF n = var THEN StrValue(Head(items)) ELSE ctx[n]])
         \o render_loop(var, Tail(items), body, ctx)

\* template contents Jinja2 can parse
WellFormed(content) == from_string(content).raised = "none"

\* render_prompt, lines 283-298, for the content of the template chosen
render_prompt(content, text, triplets) ==
    LET jinja_template == from_string(content)
        ctx == [text |-> StrValue(text),
                allowed_node_types |-> ListValue(get_allowed_node_types(triplets)),
                allowed_relations |-> ListValue(get_allowed_relations(triplets)),
                allowed_triplets |-> ListValue(triplets)]
    IN  IF jinja_template.raised # "none"
        THEN [raised |-> jinja_template.raised, prompt |-> <<>>]
        ELSE [raised |-> "none", prompt |-> render_parts(jinja_template.parts, ctx)]

\* render_prompt, lines 272-281: the template to render
select_template(tpls, index, language, template_id) ==
    IF template_id # 0
    THEN IF template_id \notin Keys(tpls)
         THEN [raised |-> "ValueError", message |-> not_found_message(template_id),
               template |-> None]
         ELSE [raised |-> "none", message |-> None, template |-> Lookup(tpls, template_id)]
    ELSE IF get_default_template(tpls, index, language) = None
         THEN [raised |-> "ValueError", message |-> no_default_message(language),
               template |-> None]
         ELSE [raised |-> "none", message |-> None,
               template |-> get_default_template(tpls, index, language)]

EvalSchema == << <<"A", "-", "R", "-", ">", "B">> >>
RenderText == <<"A", "b">>

\* one more call, while the run lasts
Call == ncalls < MaxCalls /\ ncalls' = ncalls + 1

\* main.py:35, prompt_manager = EnhancedPromptManager(), at every process start
Construct ==
    LET m == ManagerNew(disk)
    IN  /\ Call
        /\ mgr' = IF m.raised = "none" THEN "up" ELSE "down"
        /\ templates' = m.templates
        /\ default_templates' = m.default_templates
        /\ disk' = m.disk
        /\ ret' = Ret("init", 0, NoReq, m.raised, FALSE)
        /\ UNCHANGED <<next_id, now, gvars, mvars, evars>>

\* create_template
Create(request) ==
    /\ Call
    /\ mgr = "up"
    /\ next_id \in TemplateIds
    /\ \E t1, t2 \in Times :
        LET template == Template(next_id, request.name, request.description,
                                 request.language, request.content, t1, t2,
                                 request.tags, request.metadata)
        IN  /\ templates' = Store(templates, next_id, template)
            /\ now' = t2
            /\ disk' = save_file(templates')
            /\ ret' = Ret("create", next_id, request,
                          IF save_raises(templates') THEN "TypeError" ELSE "none",
                          template)
    /\ next_id' = next_id + 1
    /\ UNCHANGED <<mgr, default_templates, gvars, mvars, evars>>

\* the assignments without the "is not None" tests: an absent field is None
updated_unconditionally(template, request, t) ==
    [f \in DOMAIN template |->
        IF f \in {"name", "content"}
        THEN (IF f \in DOMAIN request THEN request[f] ELSE "None")
        ELSE IF f = "description"
        THEN (IF f \in DOMAIN request THEN request[f] ELSE <<>>)
        ELSE IF f \in {"tags", "metadata"} /\ f \in DOMAIN request
        THEN request[f]
        ELSE IF f = "updated_at" THEN t ELSE template[f]]

\* the assignments without line 211
updated_without_refresh(template, request, t) ==
    [f \in DOMAIN template |->
        IF f \in {"name", "description", "content", "tags", "metadata"}
           /\ f \in DOMAIN request
        THEN request[f]
        ELSE template[f]]

\* the assignments of update_template, lines 200-211
updated(template, request, t) ==
    [f \in DOMAIN template |->
        IF f \in {"name", "description", "content", "tags", "metadata"}
           /\ f \in DOMAIN request
        THEN request[f]
        ELSE IF f = "updated_at" THEN t ELSE template[f]]

\* update_template
Update(template_id, request) ==
    /\ Call
    /\ mgr = "up"
    /\ IF template_id \notin Keys(templates)
       THEN /\ ret' = Ret("update", template_id, request, "ValueError",
                          not_found_message(template_id))
            /\ UNCHANGED <<templates, disk, now>>
       ELSE \E t \in Times :
            LET template == updated(Lookup(templates, template_id), request, t)
            IN  /\ templates' = Store(templates, template_id, template)
                /\ now' = t
                /\ disk' = save_file(templates')
                /\ ret' = Ret("update", template_id, request,
                              IF save_raises(templates') THEN "TypeError" ELSE "none",
                              template)
    /\ UNCHANGED <<mgr, default_templates, next_id, gvars, mvars, evars>>

\* delete_template
Delete(template_id) ==
    /\ Call
    /\ mgr = "up"
    /\ IF template_id \notin Keys(templates)
       THEN /\ ret' = Ret("delete", template_id, NoReq, "none", FALSE)
            /\ UNCHANGED <<templates, disk>>
       ELSE /\ templates' = Del(templates, template_id)
            /\ disk' = save_file(templates')
            /\ ret' = Ret("delete", template_id, NoReq,
                          IF save_raises(templates') THEN "TypeError" ELSE "none",
                          ~save_raises(templates'))
    /\ UNCHANGED <<mgr, default_templates, next_id, now, gvars, mvars, evars>>

\* get_template
GetTemplate(template_id) ==
    /\ Call
    /\ mgr = "up"
    /\ ret' = Ret("get", template_id, NoReq, "none", get_template(templates, template_id))
    /\ UNCHANGED <<mgr, templates, default_templates, disk, next_id, now,
                   gvars, mvars, evars>>

\* get_default_template
GetDefaultTemplate(language) ==
    /\ Call
    /\ mgr = "up"
    /\ ret' = Ret("get_default", 0, [language |-> language], "none",
                  get_default_template(templates, default_templates, language))
    /\ UNCHANGED <<mgr, templates, default_templates, disk, next_id, now,
                   gvars, mvars, evars>>

\* render_prompt(language, text, schema_info, template_id); template_id 0 is None
RenderPrompt(language, template_id) ==
    /\ Call
    /\ mgr = "up"
    /\ LET chosen == select_template(templates, default_templates, language, template_id)
           rendered == render_prompt(chosen.template.content, RenderText, EvalSchema)
       IN  ret' = IF chosen.raised # "none"
                  THEN Ret("render", template_id, [language |-> language],
                           chosen.raised, chosen.message)
                  ELSE Ret("render", template_id, [language |-> language],
                           rendered.raised, rendered.prompt)
    /\ UNCHANGED <<mgr, templates, default_templates, disk, next_id, now,
                   gvars, mvars, evars>>

\* a copy that keeps the tags of the original as they are
duplicated_same_tags(original, id, new_name, t1, t2) ==
    Template(id, new_name, <<"copy of", original.name>>, original.language,
             original.content, t1, t2, original.tags, original.metadata)

\* the template duplicate_template builds, lines 306-315
duplicated(original, id, new_name, t1, t2) ==
    Template(id, new_name, <<"copy of", original.name>>, original.language,
             original.content, t1, t2, original.tags \o <<CopyTag>>,
             original.metadata)

\* duplicate_template
Duplicate(template_id, new_name) ==
    /\ Call
    /\ mgr = "up"
    /\ IF template_id \notin Keys(templates)
       THEN /\ ret' = Ret("duplicate", template_id, [new_name |-> new_name],
                          "ValueError", not_found_message(template_id))
            /\ UNCHANGED <<templates, disk, now, next_id>>
       ELSE /\ next_id \in TemplateIds
            /\ \E t1, t2 \in Times :
                LET new_template == duplicated(Lookup(templates, template_id),
                                               next_id, new_name, t1, t2)
                IN  /\ templates' = Store(templates, next_id, new_template)
                    /\ now' = t2
                    /\ disk' = save_file(templates')
                    /\ ret' = Ret("duplicate", template_id, [new_name |-> new_name],
                                  IF save_raises(templates') THEN "TypeError" ELSE "none",
                                  new_template)
            /\ next_id' = next_id + 1
    /\ UNCHANGED <<mgr, default_templates, gvars, mvars, evars>>

NextStore ==
    \/ Construct
    \/ \E request \in CreateRequests : Create(request)
    \/ \E id \in RequestIds, request \in UpdateRequests : Update(id, request)
    \/ \E id \in RequestIds : Delete(id)
    \/ \E id \in RequestIds : GetTemplate(id)
    \/ \E language \in Languages : GetDefaultTemplate(language)
    \/ \E language \in Languages, id \in {0} \cup RequestIds : RenderPrompt(language, id)
    \/ \E id \in RequestIds : Duplicate(id, "n3")

-----------------------------------------------------------------------------
(* app/prompt_evaluator.py: evaluate_template *)

MaxTests == 2
TruncLen == 100

\* the methods class EnhancedPromptManager defines
ManagerMethods ==
    {"__init__", "_init_default_templates", "_get_default_zh_content",
     "_get_default_en_content", "load_templates", "save_templates",
     "create_template", "update_template", "delete_template", "get_template",
     "list_templates", "get_default_template", "render_prompt",
     "duplicate_template", "get_template_statistics"}

\* text[:100] + "..." if len(text) > 100 else text
Truncate(text) ==
    IF Len(text) > TruncLen
    THEN SubSeq(text, 1, TruncLen) \o <<".", ".", ".">>
    ELSE text

ZeroScores(metrics) == [m \in Range(metrics) |-> Q(0, 1)]

Failed(error, file) ==
    [error |-> error, result |-> Dict({}, <<>>), scores |-> NoScores, disk |-> file]

\* the body of the try statement, lines 41-57, for test text number i:
\* its exception or its extraction result and scores, and the storage file
\* the manager it builds leaves behind.  Line 45 calls get_active_template,
\* which EnhancedPromptManager does not define: an AttributeError.
TryBody(i) ==
    LET temp_manager == ManagerNew(disk)
        rendered == render_prompt(template_content, test_texts[i], EvalSchema)
    IN  IF temp_manager.raised # "none"
        THEN Failed(temp_manager.raised, temp_manager.disk)
        ELSE IF "get_active_template" \notin ManagerMethods
        THEN Failed("AttributeError", temp_manager.disk)
        ELSE IF "zh" \notin DOMAIN temp_manager.default_templates
        THEN Failed("ValueError", temp_manager.disk)
        ELSE IF rendered.raised # "none"
        THEN Failed(rendered.raised, temp_manager.disk)
        ELSE IF ~extractor[i].ok
        THEN Failed("ValueError", temp_manager.disk)
        ELSE [error |-> "none",
              result |-> extractor[i].result,
              scores |-> evaluate_single_result(extractor[i].result, test_texts[i],
                                                EvalSchema, evaluation_metrics),
              disk |-> temp_manager.disk]

\* lines 67-69: total_scores[metric] += scores[metric], a list's every entry
RECURSIVE Accumulate(_, _, _)
Accumulate(metrics, scores, totals) ==
    IF metrics = <<>> THEN totals
    ELSE Accumulate(Tail(metrics), scores,
            IF Head(metrics) \in DOMAIN scores
            THEN [totals EXCEPT ![Head(metrics)] = QAdd(@, scores[Head(metrics)])]
            ELSE totals)

\* an except clause that records the error without the 0.0 scores
DetailRecordNoScores(i, outcome) ==
    IF outcome.error = "none"
    THEN [test_index |-> i - 1, text |-> Truncate(test_texts[i]),
          extraction_result |-> outcome.result, scores |-> outcome.scores]
    ELSE [test_index |-> i - 1, text |-> Truncate(test_texts[i]),
          error |-> outcome.error, scores |-> NoScores]

\* records numbered from 1, as with enumerate(test_texts, 1)
DetailRecordOneBased(i, outcome) ==
    IF outcome.error = "none"
    THEN [test_index |-> i, text |-> Truncate(test_texts[i]),
          extraction_result |-> outcome.result, scores |-> outcome.scores]
    ELSE [test_index |-> i, text |-> Truncate(test_texts[i]),
          error |-> outcome.error, scores |-> ZeroScores(evaluation_metrics)]

\* an except clause that gives 0.0 to the recognised metric names only
DetailRecordKnownOnly(i, outcome) ==
    IF outcome.error = "none"
    THEN [test_index |-> i - 1, text |-> Truncate(test_texts[i]),
          extraction_result |-> outcome.result, scores |-> outcome.scores]
    ELSE [test_index |-> i - 1, text |-> Truncate(test_texts[i]),
          error |-> outcome.error,
          scores |-> ZeroScores(SelectSeq(evaluation_metrics,
                                          LAMBDA m : m \in MetricNames))]

\* the record appended for test text number i (test_index i-1)
DetailRecord(i, outcome) ==
    IF outcome.error = "none"
    THEN [test_index |-> i - 1, text |-> Truncate(test_texts[i]),
          extraction_result |-> outcome.result, scores |-> outcome.scores]
    ELSE [test_index |-> i - 1, text |-> Truncate(test_texts[i]),
          error |-> outcome.error, scores |-> ZeroScores(evaluation_metrics)]

\* the division without its guard: a ZeroDivisionError, shown as -1
AverageUnguarded(total, num_tests) ==
    IF num_tests = 0 THEN <<-1, 1>> ELSE Q(total[1], total[2] * num_tests)

\* line 82: total_scores[metric] / num_tests if num_tests > 0 else 0.0
Average(total, num_tests) ==
    IF num_tests > 0 THEN Q(total[1], total[2] * num_tests) ELSE Q(0, 1)

\* _generate_evaluation_summary: the success count and the tier
generate_evaluation_summary(results, details) ==
    LET avg_score ==
            IF DOMAIN results = {} THEN Q(0, 1)
            ELSE QMean(values(results))
    IN  [successful_tests |->
            Cardinality({k \in DOMAIN details : "error" \notin DOMAIN details[k]}),
         total_tests |-> Len(details),
         tier |-> IF QLe(Q(8, 10), avg_score) THEN "excellent"
                  ELSE IF QLe(Q(6, 10), avg_score) THEN "good"
                  ELSE IF QLe(Q(4, 10), avg_score) THEN "mediocre"
                  ELSE "poor"]

EvalTexts ==
    { <<"A", "b">>,
      SubSeq([i \in 1..TruncLen |-> "a"], 1, TruncLen),
      SubSeq([i \in 1..(TruncLen + 1) |-> "b"], 1, TruncLen + 1) }

MetricLists ==
    { <<>>, <<"accuracy">>, <<"completeness", "accuracy">>,
      <<"relevance", "bogus", "consistency">> }

ExtractOutcomes ==
    { [ok |-> FALSE, result |-> Dict({}, <<>>)],
      [ok |-> TRUE,
       result |-> [nodes |-> << [id |-> <<"a", "_", "1">>, name |-> <<"A", "b">>,
                                 type |-> <<"A">>] >>,
                   relationships |-> <<>>]] }

EvalFiles ==
    { FileAbsent, FileCorrupt,
      FileJson(<< Template(1, "n1", <<"d1">>, "zh", "c1", 0, 0, <<"x">>, MetaDefault) >>) }

EvalStart ==
    /\ template_content \in {"c1", "bad"}
    /\ \E n \in 0..MaxTests :
          /\ test_texts \in [1..n -> EvalTexts]
          /\ extractor \in [1..n -> ExtractOutcomes]
    /\ evaluation_metrics \in MetricLists
    /\ ev_pc = "loop"
    /\ detailed_results = <<>>
    /\ total_scores = ZeroScores(evaluation_metrics)
    /\ evaluation_results = NoScores
    /\ summary = [successful_tests |-> 0, total_tests |-> 0, tier |-> "none"]
    /\ disk \in EvalFiles

\* one iteration of the for loop, lines 38-77: the try and its except
EvalCase ==
    /\ ev_pc = "loop"
    /\ Len(detailed_results) < Len(test_texts)
    /\ LET i == Len(detailed_results) + 1
           outcome == TryBody(i)
       IN  /\ detailed_results' = Append(detailed_results, DetailRecord(i, outcome))
           /\ total_scores' =
                IF outcome.error = "none"
                THEN Accumulate(evaluation_metrics, outcome.scores, total_scores)
                ELSE total_scores
           /\ disk' = outcome.disk
    /\ UNCHANGED <<template_content, test_texts, evaluation_metrics, extractor,
                   ev_pc, evaluation_results, summary>>
    /\ UNCHANGED <<mgr, templates, default_templates, next_id, now, ret, ncalls,
                   gvars, mvars>>

\* lines 79-97: the averages, the summary, the return
EvalReturn ==
    /\ ev_pc = "loop"
    /\ Len(detailed_results) = Len(test_texts)
    /\ evaluation_results' =
          [m \in Range(evaluation_metrics) |->
              Average(total_scores[m], Len(test_texts))]
    /\ summary' = generate_evaluation_summary(evaluation_results', detailed_results)
    /\ ev_pc' = "done"
    /\ UNCHANGED <<template_content, test_texts, evaluation_metrics, extractor,
                   detailed_results, total_scores, svars, gvars, mvars>>

-----------------------------------------------------------------------------
(* list_templates *)

MaxListed == 2          \* templates in the store that is listed
MaxPage == 3            \* request.page ranges over 0..MaxPage
MaxPageSize == 2        \* request.page_size ranges over 0..MaxPageSize

\* list[start:end] for start >= 0 or start < 0, end >= 0
PySlice(s, start, end) ==
    LET n == Len(s)
        norm(i) == IF i < 0 THEN Max(i + n, 0) ELSE IF i > n THEN n ELSE i
    IN  SubSeq(s, norm(start) + 1, norm(end))

\* templates whose name and description are kept character by character,
\* since the keyword filter looks inside them
ListedTemplate(name, description, language, tags) ==
    [name |-> name, description |-> description, language |-> language,
     content |-> "c1", version |-> InitialVersion, created_at |-> 0,
     updated_at |-> 0, tags |-> tags, metadata |-> MetaEmpty]

ListedPool ==
    { ListedTemplate(<<"A", "b">>, <<>>, "zh", <<"x">>),
      ListedTemplate(<<"b">>, <<"R">>, "en", <<"x", "y">>),
      ListedTemplate(<<"B">>, <<"A">>, "zh", <<>>),
      ListedTemplate(<<"R">>, <<"a", "b">>, "en", <<"y">>) }

\* self.templates.values() of a store of up to MaxListed templates
ListedStores ==
    UNION { { [i \in 1..n |-> [id |-> i] @@ pick[i]] : pick \in [1..n -> ListedPool] }
            : n \in 0..MaxListed }

\* an Optional field: left out when None
Optional(field, given) ==
    {[f \in {} |-> 0]} \cup {[f \in {field} |-> v] : v \in given}

\* TemplateSearchRequest
ListRequests ==
    { language @@ tags @@ keyword @@ [page |-> page, page_size |-> page_size] :
        language \in Optional("language", {"", "zh"}),
        tags \in Optional("tags", {<<>>, <<"x">>, <<"y", "z">>}),
        keyword \in Optional("keyword", {<<>>, <<"a">>, <<"A", "B">>}),
        page \in 0..MaxPage,
        page_size \in 0..MaxPageSize }

\* if request.language: ... if request.tags: ... if request.keyword: ...
filter_templates(tpls, request) ==
    LET by_language ==
            IF "language" \in DOMAIN request /\ request.language # ""
            THEN SelectSeq(tpls, LAMBDA t : t.language = request.language)
            ELSE tpls
        by_tags ==
            IF "tags" \in DOMAIN request /\ request.tags # <<>>
            THEN SelectSeq(by_language,
                    LAMBDA t : \E i \in DOMAIN request.tags :
                                  request.tags[i] \in Range(t.tags))
            ELSE by_language
    IN  IF "keyword" \in DOMAIN request /\ request.keyword # <<>>
        THEN SelectSeq(by_tags,
                LAMBDA t : \/ Contains(lower(t.name), lower(request.keyword))
                           \/ Contains(lower(t.description), lower(request.keyword)))
        ELSE by_tags

\* pages counted from 0
list_templates_zero_based(tpls, request) ==
    LET filtered == filter_templates(tpls, request)
        start == request.page * request.page_size
    IN  [templates |-> PySlice(filtered, start, start + request.page_size),
         total |-> Len(filtered),
         page |-> request.page, page_size |-> request.page_size]

\* list_templates
list_templates(tpls, request) ==
    LET filtered == filter_templates(tpls, request)
        start == (request.page - 1) * request.page_size
    IN  [templates |-> PySlice(filtered, start, start + request.page_size),
         total |-> Len(filtered),
         page |-> request.page, page_size |-> request.page_size]

\* a started manager over one of the stores
ListStart ==
    /\ mgr = "up"
    /\ templates \in ListedStores
    /\ default_templates = NoDefaults
    /\ disk = FileAbsent
    /\ next_id = 1
    /\ now = 0
    /\ ret = Ret("none", 0, NoReq, "none", FALSE)
    /\ ncalls = 0

\* prompt_manager.list_templates(request), once
ListTemplates(request) ==
    /\ mgr = "up"
    /\ ret.op = "none"
    /\ ret' = Ret("list", 0, request, "none", list_templates(templates, request))
    /\ UNCHANGED <<mgr, templates, default_templates, disk, next_id, now, ncalls,
                   gvars, mvars, evars>>

NextList == \E request \in ListRequests : ListTemplates(request)

-----------------------------------------------------------------------------
(* Specifications: each exercises one component, the others stay idle *)

vars == <<gvars, mvars, svars, evars>>

GrammarIdle ==
    /\ g_in = <<>>
    /\ g_cur = Derived(<<>>)
    /\ g_prev = Derived(<<>>)

MetricIdle ==
    /\ m_result = Dict({}, <<>>)
    /\ m_text = <<>>
    /\ m_schema = <<>>
    /\ m_scores = NoScores

\* the store without its storage file
ManagerIdle ==
    /\ mgr = "down"
    /\ templates = <<>>
    /\ default_templates = NoDefaults
    /\ next_id = 1
    /\ now = 0
    /\ ret = Ret("none", 0, NoReq, "none", FALSE)
    /\ ncalls = 0

EvalIdle ==
    /\ template_content = "c1"
    /\ test_texts = <<>>
    /\ evaluation_metrics = <<>>
    /\ extractor = <<>>
    /\ ev_pc = "done"
    /\ detailed_results = <<>>
    /\ total_scores = NoScores
    /\ evaluation_results = NoScores
    /\ summary = [successful_tests |-> 0, total_tests |-> 0, tier |-> "none"]

\* the template store: process starts and create, update, delete calls
Init == StoreStart /\ GrammarIdle /\ MetricIdle /\ EvalIdle
Next == NextStore
Spec == Init /\ [][Next]_vars

\* the schema grammar
InitGrammar == GrammarStart /\ MetricIdle /\ ManagerIdle /\ disk = FileAbsent /\ EvalIdle
SpecGrammar == InitGrammar /\ [][NextGrammar]_vars

\* the metrics
InitMetric == MetricStart /\ GrammarIdle /\ ManagerIdle /\ disk = FileAbsent /\ EvalIdle
SpecMetric == InitMetric /\ [][NextMetric]_vars

\* one call of evaluate_template
InitEval == EvalStart /\ GrammarIdle /\ MetricIdle /\ ManagerIdle
NextEval == EvalCase \/ EvalReturn
SpecEval == InitEval /\ [][NextEval]_vars
\* the loop and the return are straight-line code: a started call goes on
SpecEvalFair == SpecEval /\ WF_vars(NextEval)

\* one call of list_templates
InitList == ListStart /\ GrammarIdle /\ MetricIdle /\ EvalIdle
SpecList == InitList /\ [][NextList]_vars

-----------------------------------------------------------------------------
(* Claims about the metrics *)

\* C5: for every extraction result (fields empty or missing included), text
\* and schema, completeness, accuracy, consistency and relevance each lie in
\* the closed range [0.0, 1.0].
C5_MetricsInUnitRange ==
    m_scores # NoScores =>
        /\ DOMAIN m_scores = MetricNames
        /\ \A m \in DOMAIN m_scores :
              QLe(Q(0, 1), m_scores[m]) /\ QLe(m_scores[m], Q(1, 1))

\* a result with a node that lacks fields and a relationship, whose
\* completeness was clamped to 1.0 and whose accuracy is strictly inside
C5_Witness ==
    /\ m_scores # NoScores
    /\ \E i \in DOMAIN Get(m_result, "nodes", <<>>) :
          DOMAIN m_result["nodes"][i] # AllKeys
    /\ Get(m_result, "relationships", <<>>) # <<>>
    /\ m_scores["completeness"] = Q(1, 1)
    /\ m_scores["accuracy"] # Q(0, 1)
    /\ m_scores["accuracy"] # Q(1, 1)
    /\ m_scores["relevance"] = Q(1, 4)

-----------------------------------------------------------------------------
(* Claims about the schema grammar *)

StrictlySorted(l) == \A i, j \in 1..Len(l) : i < j => StrLess(l[i], l[j])

\* C6: allowedNodeTypes and allowedRelationTypes are lexicographically
\* sorted without duplicates, and two triplet lists with the same set of
\* distinct strings (a permutation, a repetition) give the same two lists.
C6_SortedAndSetDetermined ==
    /\ StrictlySorted(g_cur.nodes)
    /\ StrictlySorted(g_cur.rels)
    /\ Range(g_prev.input) = Range(g_cur.input)
          => g_prev.nodes = g_cur.nodes /\ g_prev.rels = g_cur.rels

C6_Witness ==
    /\ Range(g_prev.input) = Range(g_cur.input)
    /\ Len(g_cur.input) = 2
    /\ g_cur.input[1] # g_prev.input[1]
    /\ Len(g_cur.nodes) >= 2
    /\ Len(g_cur.rels) >= 2

\* a part of the triplet is missing
Malformed(t) ==
    \/ extract_entity_type_from_triplet(t) = {}
    \/ extract_relation_type(t) = {}
    \/ extract_target_type(t) = {}

Without(l, t) == SelectSeq(l, LAMBDA x : x # t)

\* C7 as claimed: a malformed triplet contributes nothing to either
\* derived list (the lists are those of the input without it).
C7_MalformedContributesNothing ==
    \A t \in Range(g_cur.input) :
        Malformed(t) =>
            /\ g_cur.nodes = get_allowed_node_types(Without(g_cur.input, t))
            /\ g_cur.rels = get_allowed_relations(Without(g_cur.input, t))

\* C7 as amended: no triplet string raises; each part is parsed on its own,
\* a part that is present is contributed even when another part is missing
\* (A- gives the node type A, a-R-> gives a and R), a missing part
\* contributes nothing, and so does a string none of whose parts parses.
C7_PartsContributeIndependently ==
    /\ \A t \in Range(g_cur.input) :
          /\ extract_entity_type_from_triplet(t) \subseteq Range(g_cur.nodes)
          /\ extract_target_type(t) \subseteq Range(g_cur.nodes)
          /\ extract_relation_type(t) \subseteq Range(g_cur.rels)
          /\ "-" \notin Range(t) =>
                /\ extract_entity_type_from_triplet(t) = {}
                /\ extract_relation_type(t) = {}
                /\ extract_target_type(t) = {}
          /\ (/\ extract_entity_type_from_triplet(t) = {}
              /\ extract_relation_type(t) = {}
              /\ extract_target_type(t) = {})
                => /\ g_cur.nodes = get_allowed_node_types(Without(g_cur.input, t))
                   /\ g_cur.rels = get_allowed_relations(Without(g_cur.input, t))
    /\ \A n \in Range(g_cur.nodes) : \E t \in Range(g_cur.input) :
          n \in extract_entity_type_from_triplet(t) \cup extract_target_type(t)
    /\ \A r \in Range(g_cur.rels) : \E t \in Range(g_cur.input) :
          r \in extract_relation_type(t)

C7_Witness ==
    /\ g_cur.input = << <<"A", "-">>, <<"a", "-", "R", "-", ">">> >>
    /\ g_cur.nodes = << <<"A">>, <<"a">> >>
    /\ g_cur.rels = << <<"R">> >>

-----------------------------------------------------------------------------
(* Claims about evaluate_template *)

\* C1: when the extraction collaborator fails for a test text, the case's
\* record carries the test index, the truncated text and an error, every
\* requested metric of the case scores 0.0, and the evaluation goes on with
\* the remaining texts and returns a result.
C1_FailureCapturedAndContinues ==
    /\ \A i \in DOMAIN detailed_results :
          ~extractor[i].ok =>
              /\ "error" \in DOMAIN detailed_results[i]
              /\ detailed_results[i].test_index = i - 1
              /\ detailed_results[i].text = Truncate(test_texts[i])
              /\ DOMAIN detailed_results[i].scores = Range(evaluation_metrics)
              /\ \A m \in Range(evaluation_metrics) :
                    detailed_results[i].scores[m] = Q(0, 1)
    /\ ev_pc = "loop" => ENABLED NextEval
    /\ ev_pc = "done" =>
          /\ Len(detailed_results) = Len(test_texts)
          /\ DOMAIN evaluation_results = Range(evaluation_metrics)

C1_Witness ==
    /\ ev_pc = "done"
    /\ Len(test_texts) = 2
    /\ ~extractor[1].ok
    /\ extractor[2].ok
    /\ "error" \in DOMAIN detailed_results[1]
    /\ Len(detailed_results) = 2
    /\ evaluation_metrics = <<"completeness", "accuracy">>

\* C2 as claimed: for every test text for which the template content is
\* well-formed and the extraction collaborator returns a result, the record
\* holds that extraction result and the computed score of each requested
\* metric, and no error.
C2_SuccessRecorded ==
    \A i \in DOMAIN detailed_results :
        (WellFormed(template_content) /\ extractor[i].ok) =>
            /\ "error" \notin DOMAIN detailed_results[i]
            /\ "extraction_result" \in DOMAIN detailed_results[i]
            /\ detailed_results[i].extraction_result = extractor[i].result
            /\ detailed_results[i].scores =
                  evaluate_single_result(extractor[i].result, test_texts[i],
                                         EvalSchema, evaluation_metrics)

\* the score of a case for a metric, 0.0 when the case has none
CaseScore(i, m) == Get(detailed_results[i].scores, m, Q(0, 1))

\* C3: every requested metric's average is the sum of the cases' scores for
\* it divided by the number of test texts, and 0.0, without a fault, when
\* there is no test text.
C3_AverageIsSumOverCount ==
    ev_pc = "done" =>
        /\ DOMAIN evaluation_results = Range(evaluation_metrics)
        /\ \A m \in Range(evaluation_metrics) :
              evaluation_results[m] =
                  IF Len(test_texts) = 0 THEN Q(0, 1)
                  ELSE QMean([i \in 1..Len(test_texts) |-> CaseScore(i, m)])

C3_Witness ==
    /\ ev_pc = "done"
    /\ test_texts = <<>>
    /\ evaluation_metrics = <<"completeness", "accuracy">>
    /\ evaluation_results["completeness"] = Q(0, 1)
    /\ evaluation_results["accuracy"] = Q(0, 1)

\* C4: the test texts are processed in input order, one whole case at a
\* time; the detail log holds one record per test text, in input order, and
\* the record at position i has test index i, failed or not.
C4_OneRecordPerTextInOrder ==
    /\ Len(detailed_results) <= Len(test_texts)
    /\ \A k \in DOMAIN detailed_results :
          /\ detailed_results[k].test_index = k - 1
          /\ detailed_results[k].text = Truncate(test_texts[k])
    /\ ev_pc = "done" => Len(detailed_results) = Len(test_texts)

C4_Witness ==
    /\ ev_pc = "done"
    /\ Len(test_texts) = 2
    /\ Len(test_texts[1]) < Len(test_texts[2])
    /\ Len(test_texts[2]) > TruncLen
    /\ Len(detailed_results[2].text) = TruncLen + 3
    /\ detailed_results[2].test_index = 1

-----------------------------------------------------------------------------
(* Claims about the template store *)

\* the step is an update_template call whose id is in the store
UpdateApplied ==
    /\ ncalls' = ncalls + 1
    /\ ret'.op = "update"
    /\ ret'.id \in Keys(templates)

\* C8: update on an existing id overwrites only the fields present in the
\* request, leaves the other fields of the template as they were, never
\* changes its id, language, created_at or version, and leaves every other
\* template unchanged.
C8_UpdateFrame ==
    [][UpdateApplied =>
        LET old == Lookup(templates, ret'.id)
            new == Lookup(templates', ret'.id)
        IN  /\ Len(templates') = Len(templates)
            /\ \A i \in DOMAIN templates :
                  templates[i].id # ret'.id => templates'[i] = templates[i]
            /\ \A f \in {"name", "description", "content", "tags", "metadata"} :
                  new[f] = IF f \in DOMAIN ret'.req THEN ret'.req[f] ELSE old[f]
            /\ new.id = old.id
            /\ new.language = old.language
            /\ new.created_at = old.created_at
            /\ new.version = old.version]_vars

\* an update with only name set, of one of two templates
C8_Witness ==
    /\ ret.op = "update"
    /\ ret.id \in Keys(templates)
    /\ DOMAIN ret.req = {"name"}
    /\ Len(templates) = 2
    /\ Lookup(templates, ret.id).name = "n2"
    /\ Lookup(templates, ret.id).content = "c1"
    /\ Lookup(templates, ret.id).tags = <<"x">>

C10_DeleteReturnsPresence ==
    [][(ncalls' = ncalls + 1 /\ ret'.op = "delete") =>
        IF ret'.id \in Keys(templates)
        THEN /\ ret'.raised = "none"
             /\ ret'.value = TRUE
             /\ templates' = Del(templates, ret'.id)
        ELSE /\ ret'.raised = "none"
             /\ ret'.value = FALSE
             /\ templates' = templates
             /\ disk' = disk]_vars

-----------------------------------------------------------------------------
(* Claims about the formulas of relevance, accuracy and consistency *)

\* a score was computed for the result, text and schema of the state
Scored == m_scores # NoScores

ScoredNodes == Get(m_result, "nodes", <<>>)
ScoredRels == Get(m_result, "relationships", <<>>)

\* the name is a case-insensitive substring of the text
NameInText(node) == Contains(lower(m_text), lower(Get(node, "name", <<>>)))

\* some whitespace-separated token of the lowercased name is in the text
TokenInText(node) ==
    \E w \in Range(split(lower(Get(node, "name", <<>>)))) : Contains(lower(m_text), w)

\* the mean of the values f gives to the positions 1..n
MeanOver(n, f(_)) == QMean([i \in 1..n |-> f(i)])

\* C18 as claimed: relevance is 0.0 without nodes, and otherwise the mean
\* over the nodes of 1.0 when the name is a substring of the text (an empty
\* name included), else 0.5 when a token of it is, else 0.0.
C18_RelevanceCountsEmptyName ==
    Scored =>
        m_scores["relevance"] =
            IF ScoredNodes = <<>> THEN Q(0, 1)
            ELSE LET v(i) == IF NameInText(ScoredNodes[i]) THEN Q(1, 1)
                             ELSE IF TokenInText(ScoredNodes[i]) THEN Q(1, 2)
                             ELSE Q(0, 1)
                 IN  MeanOver(Len(ScoredNodes), v)

\* C18 as amended: relevance is 0.0 without nodes, and otherwise the mean
\* over the nodes of 0.0 for a node whose name is empty or missing, 1.0 for
\* a non-empty name that is a case-insensitive substring of the text, else 0.5
\* when a token of the name is in the text, else 0.0.
C18_RelevanceSkipsEmptyName ==
    Scored =>
        m_scores["relevance"] =
            IF ScoredNodes = <<>> THEN Q(0, 1)
            ELSE LET v(i) == IF ~Truthy(ScoredNodes[i], "name") THEN Q(0, 1)
                             ELSE IF NameInText(ScoredNodes[i]) THEN Q(1, 1)
                             ELSE IF TokenInText(ScoredNodes[i]) THEN Q(1, 2)
                             ELSE Q(0, 1)
                 IN  MeanOver(Len(ScoredNodes), v)

\* a node named in the text and a node with an empty name: 1.0 and 0.0
C18_Witness ==
    /\ Scored
    /\ Len(ScoredNodes) = 2
    /\ Get(ScoredNodes[1], "name", <<>>) = <<"A", "b">>
    /\ "name" \in DOMAIN ScoredNodes[2]
    /\ ScoredNodes[2]["name"] = <<>>
    /\ m_text = <<"A", "b", " ", "b">>
    /\ m_scores["relevance"] = Q(1, 2)

\* C19 as claimed: accuracy of a non-empty result is the mean of the node and
\* relationship sub-scores, the type tests made against allowedNodeTypes and
\* allowedRelationTypes of the schema grammar, for every schema (the name
\* test read as: the name is not empty and is in the text).
C19_AccuracyUsesSchemaGrammar ==
    (Scored /\ (ScoredNodes # <<>> \/ ScoredRels # <<>>)) =>
        LET node_score(i) ==
                LET n == ScoredNodes[i]
                IN  QAdd(QAdd(
                      IF Truthy(n, "id") /\ Truthy(n, "name") /\ Truthy(n, "type")
                      THEN Q(3, 10) ELSE Q(0, 1),
                      IF Truthy(n, "name") /\ NameInText(n)
                      THEN Q(4, 10) ELSE Q(0, 1)),
                      IF Get(n, "type", <<>>) \in Range(get_allowed_node_types(m_schema))
                      THEN Q(3, 10) ELSE Q(0, 1))
            rel_score(i) ==
                LET r == ScoredRels[i]
                IN  QAdd(QAdd(
                      IF Truthy(r, "source") /\ Truthy(r, "target") /\ Truthy(r, "type")
                      THEN Q(4, 10) ELSE Q(0, 1),
                      IF /\ Get(r, "source", <<>>) \in NodeIds(ScoredNodes)
                         /\ Get(r, "target", <<>>) \in NodeIds(ScoredNodes)
                      THEN Q(3, 10) ELSE Q(0, 1)),
                      IF Get(r, "type", <<>>) \in Range(get_allowed_relations(m_schema))
                      THEN Q(3, 10) ELSE Q(0, 1))
        IN  m_scores["accuracy"] =
                QMean([i \in 1..Len(ScoredNodes) |-> node_score(i)]
                      \o [i \in 1..Len(ScoredRels) |-> rel_score(i)])

\* C20: consistency is 0.0 without nodes; otherwise the mean of the fraction
\* of pattern-conforming node ids, of distinct types over nodes and, only
\* when there are relationships, of the fraction of relationships whose source
\* and target are node ids; conforming ids, pairwise distinct types and valid
\* references alone give 1.0.
C20_ConsistencyFormula ==
    Scored =>
        LET n == Len(ScoredNodes)
            a == Q(Cardinality({i \in 1..n :
                        id_pattern_match(Get(ScoredNodes[i], "id", <<>>))}), n)
            b == Q(Cardinality({Get(ScoredNodes[i], "type", <<>>) : i \in 1..n}), n)
            valid == {i \in DOMAIN ScoredRels :
                        \E j, k \in 1..n :
                            /\ Get(ScoredRels[i], "source", <<>>) = Get(ScoredNodes[j], "id", <<>>)
                            /\ Get(ScoredRels[i], "target", <<>>) = Get(ScoredNodes[k], "id", <<>>)}
            c == Q(Cardinality(valid), Len(ScoredRels))
        IN  /\ n = 0 => m_scores["consistency"] = Q(0, 1)
            /\ (n > 0 /\ ScoredRels = <<>>) =>
                  m_scores["consistency"] = QMean(<<a, b>>)
            /\ (n > 0 /\ ScoredRels # <<>>) =>
                  m_scores["consistency"] = QMean(<<a, b, c>>)
            /\ (n > 0 /\ a = Q(1, 1) /\ b = Q(1, 1)
                /\ Cardinality(valid) = Len(ScoredRels)) =>
                  m_scores["consistency"] = Q(1, 1)

\* two conforming ids, two types, no relationship: the mean of two sub-scores
C20_Witness ==
    /\ Scored
    /\ Len(ScoredNodes) = 2
    /\ ScoredRels = <<>>
    /\ \A i \in 1..2 : id_pattern_match(Get(ScoredNodes[i], "id", <<>>))
    /\ Get(ScoredNodes[1], "type", <<>>) # Get(ScoredNodes[2], "type", <<>>)
    /\ m_scores["consistency"] = Q(1, 1)

-----------------------------------------------------------------------------
(* Claims about the reads, the copies and the rendering of the store *)

\* the step is a call of op that names an id no template of the store has
MissingIdCall(op) ==
    /\ ncalls' = ncalls + 1
    /\ ret'.op = op
    /\ ret'.id # 0
    /\ ret'.id \notin Keys(templates)

StoreUnchanged ==
    /\ templates' = templates
    /\ default_templates' = default_templates
    /\ disk' = disk

\* C11 as claimed: get, update, duplicate and render-by-id with an id that
\* is not in the store each fail with a not-found signal that carries the id,
\* and leave the store, in memory and persisted, unchanged.
C11_MissingIdAlwaysSignals ==
    [][\A op \in {"get", "update", "duplicate", "render"} :
          MissingIdCall(op) =>
              /\ ret'.raised = "ValueError"
              /\ ret'.value.about = ret'.id
              /\ StoreUnchanged]_vars

\* C11 as amended: update, duplicate and render-by-id with an id that is not
\* in the store fail with a not-found signal that carries the id; get returns
\* none and signals nothing; all four leave the store unchanged.
C11_MissingIdSignalsExceptGet ==
    [][/\ \A op \in {"update", "duplicate", "render"} :
             MissingIdCall(op) =>
                 /\ ret'.raised = "ValueError"
                 /\ ret'.value.about = ret'.id
                 /\ StoreUnchanged
       /\ MissingIdCall("get") =>
             /\ ret'.raised = "none"
             /\ ret'.value = None
             /\ StoreUnchanged]_vars

C11_Witness ==
    /\ ret.op = "duplicate"
    /\ Keys(templates) = {1}
    /\ ret.id = 2
    /\ ret.raised = "ValueError"
    /\ ret.value.about = 2

\* C12 as claimed: after store initialization and after every create,
\* update, delete or duplicate that returns without an error, the persisted
\* collection equals the one in memory; memory is ahead of the file only
\* after a call whose failure was propagated.
C12_WriteThrough ==
    (/\ mgr = "up"
     /\ ret.op \in {"init", "create", "update", "delete", "duplicate"}
     /\ ret.raised = "none")
        => disk = FileJson(templates)

\* C13 as claimed: create returns a record with an id no template had, the
\* initial version, both timestamps and the fields of the request, changes
\* no template that was there, and a get of the returned id right afterwards
\* returns that record.
C13_CreateThenGet ==
    [][/\ (ncalls' = ncalls + 1 /\ ret'.op = "create") =>
             /\ ret'.raised = "none"
             /\ ret'.value.id \notin Keys(templates)
             /\ ret'.value.version = InitialVersion
             /\ {"created_at", "updated_at"} \subseteq DOMAIN ret'.value
             /\ \A f \in DOMAIN ret'.req : ret'.value[f] = ret'.req[f]
             /\ SubSeq(templates', 1, Len(templates)) = templates
       /\ (ret.op = "create" /\ ncalls' = ncalls + 1
           /\ ret'.op = "get" /\ ret'.id = ret.id) =>
             /\ ret.raised = "none"
             /\ ret'.value = ret.value]_vars

\* the step is a duplicate_template call whose id is in the store
DuplicateApplied ==
    /\ ncalls' = ncalls + 1
    /\ ret'.op = "duplicate"
    /\ ret'.id \in Keys(templates)

\* C15: duplicate of an existing template adds exactly one template, with an
\* id no template had, the name supplied, a description that refers to the
\* name of the source, the tags of the source followed by the copy marker,
\* the initial version, and the language, content and metadata of the
\* source; the source and every other template stay as they were.
C15_DuplicateAddsOneCopy ==
    [][DuplicateApplied =>
        LET source == Lookup(templates, ret'.id)
            copy == templates'[Len(templates')]
        IN  /\ Len(templates') = Len(templates) + 1
            /\ SubSeq(templates', 1, Len(templates)) = templates
            /\ copy.id \notin Keys(templates)
            /\ copy.name = ret'.req.new_name
            /\ source.name \in Range(copy.description)
            /\ copy.tags = source.tags \o <<CopyTag>>
            /\ copy.version = InitialVersion
            /\ copy.language = source.language
            /\ copy.content = source.content
            /\ copy.metadata = source.metadata]_vars

C15_Witness ==
    /\ ret.op = "duplicate"
    /\ ret.id = 1
    /\ Len(templates) = 2
    /\ templates[1].tags = <<"x">>
    /\ templates[2].id = 2
    /\ templates[2].name = "n3"
    /\ templates[2].tags = <<"x", CopyTag>>
    /\ templates[2].content = templates[1].content

\* the default-template index gives no template of the store for a language
NoDefaultFor(language) ==
    \/ language \notin DOMAIN default_templates
    \/ default_templates[language] \notin Keys(templates)

\* C16: get_default_template returns none when the index resolves to no
\* template for the language; render without a template id for such a
\* language fails with a not-found signal and gives no output; render with
\* the id of a template of the store renders that template, whatever the
\* language argument is.
C16_DefaultLookupAndExplicitId ==
    /\ (ret.op = "get_default" /\ NoDefaultFor(ret.req.language)) =>
          ret.value = None
    /\ (ret.op = "render" /\ ret.id = 0 /\ NoDefaultFor(ret.req.language)) =>
          /\ ret.raised = "ValueError"
          /\ ret.value.about = ret.req.language
    /\ (ret.op = "render" /\ ret.id \in Keys(templates)) =>
          /\ ret.raised # "ValueError"
          /\ [raised |-> ret.raised, prompt |-> ret.value]
                = render_prompt(Lookup(templates, ret.id).content, RenderText, EvalSchema)

\* the index still names a template that was deleted
C16_Witness ==
    /\ ret.op = "render"
    /\ ret.id = 0
    /\ ret.req.language = "zh"
    /\ "zh" \in DOMAIN default_templates
    /\ default_templates["zh"] \notin Keys(templates)
    /\ ret.raised = "ValueError"

\* the content of the template a render call that found one has rendered
RenderedContent ==
    select_template(templates, default_templates, ret.req.language, ret.id).template.content

Rendered == ret.op = "render" /\ ret.raised # "ValueError"

\* C17 as claimed: render returns a string for every well-formed template
\* that refers to bound variables only, and fails with TemplateSyntaxError
\* for a template that refers to a substitution or loop variable name that
\* is not bound.
C17_UndefinedNameRaises ==
    (Rendered /\ WellFormed(RenderedContent)) =>
        IF referenced(from_string(RenderedContent).parts) \subseteq BoundNames
        THEN ret.raised = "none"
        ELSE ret.raised = "TemplateSyntaxError"

\* C17 as amended: render returns a string for every template content that
\* parses, whether or not the names it refers to are bound: a substitution
\* of a name that is not bound prints nothing and a loop over one runs no
\* iteration; TemplateSyntaxError is raised exactly for a content that does
\* not parse.
C17_UndefinedNameRendersEmpty ==
    Rendered =>
        /\ ret.raised = "TemplateSyntaxError" <=> ~WellFormed(RenderedContent)
        /\ WellFormed(RenderedContent) => ret.raised = "none"
        /\ RenderedContent = "c2" => ret.value = <<"T", ":", ";", "A", "b">>
        /\ RenderedContent = "c1" =>
              ret.value = <<"T", ":", "A", "b", "A", "-", "R", "-", ">", "B", ";",
                            "[", "'", "A", "'", ",", " ", "'", "B", "'", "]",
                            "[", "'", "R", "'", "]">>

C17_Witness ==
    /\ Rendered
    /\ RenderedContent = "c2"
    /\ ret.raised = "none"
    /\ ret.value = <<"T", ":", ";", "A", "b">>

-----------------------------------------------------------------------------
(* Claims about listing *)

\* the template passes every filter the listed request supplies; a filter
\* given as the empty string or the empty list counts as not supplied
PassesFilters(t) ==
    /\ ("language" \in DOMAIN ret.req /\ ret.req.language # "") =>
          t.language = ret.req.language
    /\ ("tags" \in DOMAIN ret.req /\ ret.req.tags # <<>>) =>
          Range(ret.req.tags) \cap Range(t.tags) # {}
    /\ ("keyword" \in DOMAIN ret.req /\ ret.req.keyword # <<>>) =>
          \E field \in {t.name, t.description} :
              \E i \in 1..Len(field) :
                  /\ i + Len(ret.req.keyword) - 1 <= Len(field)
                  /\ \A k \in 1..Len(ret.req.keyword) :
                        LowerChar(field[i + k - 1]) = LowerChar(ret.req.keyword[k])

\* C14: for page p >= 1 and page size s >= 1, list returns exactly the
\* elements at positions (p-1)*s+1 .. p*s of the templates that pass all
\* supplied filters (language equal, one requested tag among the tags,
\* keyword a case-insensitive substring of name or description), in store
\* order; total is the number of templates that pass; a page beyond the last
\* result is the empty list and no error.
C14_ListPage ==
    (ret.op = "list" /\ ret.req.page >= 1 /\ ret.req.page_size >= 1) =>
        LET filtered == SelectSeq(templates, PassesFilters)
            first == (ret.req.page - 1) * ret.req.page_size + 1
            last == ret.req.page * ret.req.page_size
            positions == {i \in first..last : i <= Len(filtered)}
        IN  /\ ret.raised = "none"
            /\ ret.value.total = Len(filtered)
            /\ Len(ret.value.templates) = Cardinality(positions)
            /\ \A i \in positions : ret.value.templates[i - first + 1] = filtered[i]
            /\ first > Len(filtered) => ret.value.templates = <<>>

\* the second page of one template, of two that pass a keyword and a tag
C14_Witness ==
    /\ ret.op = "list"
    /\ ret.req.page = 2
    /\ ret.req.page_size = 1
    /\ "keyword" \in DOMAIN ret.req
    /\ ret.req.keyword = <<"A", "B">>
    /\ "tags" \in DOMAIN ret.req
    /\ ret.req.tags = <<"x">>
    /\ ret.value.total = 2
    /\ ret.value.templates = <<templates[2]>>

-----------------------------------------------------------------------------
(* Claims about metric names that are not recognised *)

\* the requested names that are none of the four metrics
UnknownNames == Range(evaluation_metrics) \ MetricNames

\* the tier of the mean of the averages of the names in keys
TierOver(keys) ==
    generate_evaluation_summary([m \in keys |-> evaluation_results[m]],
                                detailed_results).tier

\* C21 as claimed: a requested name that is none of the four metrics is
\* ignored: evaluate completes, and the averages, the scores of every case
\* and the tier of the summary are what they are without that name, so the
\* name is in none of them.
C21_UnknownNameIgnored ==
    /\ \A k \in DOMAIN detailed_results :
          DOMAIN detailed_results[k].scores \subseteq MetricNames
    /\ ev_pc = "done" =>
          /\ DOMAIN evaluation_results = Range(evaluation_metrics) \cap MetricNames
          /\ summary.tier = TierOver(Range(evaluation_metrics) \cap MetricNames)

\* a failed case scores every requested name, recognised or not, with 0.0; a
\* case that did not fail scores the recognised names only
UnknownNameInCases ==
    \A k \in DOMAIN detailed_results :
        IF "error" \in DOMAIN detailed_results[k]
        THEN /\ DOMAIN detailed_results[k].scores = Range(evaluation_metrics)
             /\ \A m \in UnknownNames : detailed_results[k].scores[m] = Q(0, 1)
        ELSE DOMAIN detailed_results[k].scores
                = Range(evaluation_metrics) \cap MetricNames

\* the averages have an entry 0.0 for a name that is not recognised, and the
\* tier is that of the mean over all requested names
UnknownNameInAverages ==
    ev_pc = "done" =>
        /\ UnknownNames \subseteq DOMAIN evaluation_results
        /\ \A m \in UnknownNames : evaluation_results[m] = Q(0, 1)
        /\ summary.tier = TierOver(Range(evaluation_metrics))

\* C21 as amended: a requested name that is none of the four metrics causes
\* no error and evaluate completes; the name is kept in the output: with
\* 0.0 in the scores of every failed case, absent from the scores of the
\* other cases, with average 0.0, and counted as 0.0 in the mean the tier of
\* the summary is taken from.
C21_UnknownNameScoresZero ==
    /\ [](UnknownNameInCases /\ UnknownNameInAverages)
    /\ <>(ev_pc = "done")

C21_Witness ==
    /\ ev_pc = "done"
    /\ "bogus" \in Range(evaluation_metrics)
    /\ Len(detailed_results) = MaxTests
    /\ "error" \in DOMAIN detailed_results[1]
    /\ detailed_results[1].scores["bogus"] = Q(0, 1)
    /\ evaluation_results["bogus"] = Q(0, 1)
    /\ DOMAIN evaluation_results = {"relevance", "bogus", "consistency"}

-----------------------------------------------------------------------------
(* Claims about the default-template index *)

\* C22 as claimed: after any sequence of create, update, delete and
\* duplicate calls on a loaded store the default-template index agrees with
\* the collection: an entry for a language names a template of the
\* collection that has that language and carries the is_default flag, every
\* language with a flagged template has an entry, and the index is what a
\* scan of the collection gives.
C22_IndexAgreesWithCollection ==
    mgr = "up" =>
        /\ \A l \in DOMAIN default_templates :
              /\ default_templates[l] \in Keys(templates)
              /\ Lookup(templates, default_templates[l]).language = l
              /\ Lookup(templates, default_templates[l]).metadata.is_default = "true"
        /\ \A i \in DOMAIN templates :
              templates[i].metadata.is_default = "true" =>
                  templates[i].language \in DOMAIN default_templates
        /\ default_templates = scan_defaults(templates, NoDefaults)

=============================================================================
